---- MODULE Spec2Model ----
(***************************************************************************)
(* ExamMaker (src/main.py): the question catalog loaded from               *)
(* Categories.csv and the three randomized selection routines              *)
(* random_select_9231_p4, random_select_9231_p3 and random_select_9709_p3. *)
(*                                                                         *)
(* A random.choice(pool) is a draw of an index of pool; the draw 0 stands  *)
(* for the IndexError that random.choice raises on an empty sequence.      *)
(***************************************************************************)
EXTENDS Integers, Sequences, FiniteSets, TLC

VARIABLES
    component,      \* component_box.currentText()
    csv,            \* the Categories.csv found at csv_path by the last load
    question_data,  \* self.question_data, in insertion order
    load_raised,    \* the last load_question_data ended in ValueError
    pc,             \* position of the running handler
    attempt,        \* iteration of `for _ in range(1000)`
    selected,       \* the attempt's list of (topic, question) pairs
    used_topics,    \* the attempt's set of used topics
    total,          \* the attempt's running total (current_total in 9231 P4)
    below_6,        \* the attempt's count of questions under 6 marks
    result,         \* the value returned by the selection routine
    question_rows,      \* self.question_rows: the widgets of each row
    random_btn,         \* isEnabled() of the Random Selection button
    sort_button,        \* isEnabled() of the Sort by Marks button
    copy_btn,           \* isEnabled() of the Copy Question Indices button
    preview_btn,        \* isEnabled() of the paper's Preview button
    save_btn,           \* isEnabled() of the paper's Save button
    total_score_label   \* the number shown in "[Total Score: n]"

vars == <<component, csv, question_data, load_raised, pc, attempt, selected,
          used_topics, total, below_6, result, question_rows, random_btn,
          sort_button, copy_btn, preview_btn, save_btn, total_score_label>>

locals == <<selected, used_topics, total, below_6>>

window == <<question_rows, random_btn, sort_button, copy_btn, preview_btn,
            save_btn, total_score_label>>

Range(s) == {s[i] : i \in DOMAIN s}

------------------------------------------------------------------------------
(* Bounds of the model.                                                    *)

\* A malformed row is placed after at most MaxBadRow well-formed rows.
MaxBadRow == 2

\* The user adds a row to fewer than MaxRows rows.
MaxRows == 7

\* The user picks in the last MaxEdited of MaxRows rows and removes no other
\* row; the picks are among the placeholder and the first MaxChoice items
\* after it.
MaxEdited == 1
MaxChoice == 1

------------------------------------------------------------------------------
(* Program constants.                                                      *)

MaxAttempts == 1000
target_9231_p4 == 50
target_9231_p3 == 50
target_9709_p3 == 75

NoComponent == "(Select a Component)"
OtherComponent == "(Other Components Currently Unavailable)"
Papers == <<"9709 Paper 3", "9231 Paper 3", "9231 Paper 4">>
ComponentItems == <<NoComponent>> \o Papers \o <<OtherComponent>>

core_topics ==
    <<"Projectile Motion", "Center of Mass", "Circular Motion",
      "Hooke's Law", "General Straight Motion", "Momentum">>
extra_pool == <<"Equilibrium of Rigid Body", "Circular Motion">>

groups ==
    [chi |-> <<"Chi-square Test (contingency table)",
               "Chi-square Test (goodness of fit)">>,
     crv |-> <<"Continuous Random Variable">>,
     pgf |-> <<"Probability Generating Function">>,
     twci |-> <<"t-Test (single sample)", "t-Test (pooled sample)",
                "t-Test (paired sample)", "Confidence Interval",
                "Wilcoxon Test (signed-rank)", "Wilcoxon Test (rank-sum)">>]
required_keys == <<"chi", "crv", "pgf">>

must_have_once ==
    <<"Modulus Inequality", "Binomial Expansion",
      "Numerical Method of Solving Equation", "Trigonometric Identities",
      "Vectors", "Differential Equations", "Integration by Parts">>
must_have_at_least == <<"Complex Numbers">>
one_of_sets ==
    << <<"Factor and Remainder Theorems", "Integration by Substitution",
         "Integration by Partial Fraction">>,
       <<"Exponential Equation and Inequality", "Linearization Using Logarithm",
         "Logarithmic Equation">>,
       <<"Parametric Differentiation", "Implicit Differentiation">> >>
filler_pool ==
    <<"Auxiliary Angle Method", "Complex Numbers", "Product Rule and Quotient Rule">>

------------------------------------------------------------------------------
(* Categories.csv: rows of Topic, Question Index, Marks.  A Marks cell is  *)
(* the text of the cell, one character per element.                        *)

Digits == {"0", "1", "2", "3", "4", "5", "6", "7", "8", "9"}

DigitValue(c) ==
    CASE c = "0" -> 0 [] c = "1" -> 1 [] c = "2" -> 2 [] c = "3" -> 3
      [] c = "4" -> 4 [] c = "5" -> 5 [] c = "6" -> 6 [] c = "7" -> 7
      [] c = "8" -> 8 [] c = "9" -> 9

DigitChar(d) ==
    CASE d = 0 -> "0" [] d = 1 -> "1" [] d = 2 -> "2" [] d = 3 -> "3"
      [] d = 4 -> "4" [] d = 5 -> "5" [] d = 6 -> "6" [] d = 7 -> "7"
      [] d = 8 -> "8" [] d = 9 -> "9"

\* The decimal text of a natural number, as the file's author typed it.
RECURSIVE Cell(_)
Cell(n) == IF n < 10 THEN <<DigitChar(n)>>
           ELSE Append(Cell(n \div 10), DigitChar(n % 10))

Row(topic, index, marks) ==
    [Topic |-> topic, Index |-> index, Marks |-> Cell(marks)]

BadRow(topic, index, cell) ==
    [Topic |-> topic, Index |-> index, Marks |-> cell]

\* int(text): an optional sign and then one or more decimal digits.  (int
\* also strips blanks and accepts underscores between digits; no cell here
\* has either.)
Unsigned(cell) ==
    IF cell # <<>> /\ Head(cell) \in {"-", "+"} THEN Tail(cell) ELSE cell

IsIntLiteral(cell) ==
    /\ Unsigned(cell) # <<>>
    /\ \A i \in DOMAIN Unsigned(cell) : Unsigned(cell)[i] \in Digits

RECURSIVE DecimalValue(_)
DecimalValue(ds) ==
    IF ds = <<>> THEN 0
    ELSE 10 * DecimalValue(SubSeq(ds, 1, Len(ds) - 1)) + DigitValue(ds[Len(ds)])

int(cell) ==
    IF cell # <<>> /\ Head(cell) = "-" THEN 0 - DecimalValue(Unsigned(cell))
    ELSE DecimalValue(Unsigned(cell))

------------------------------------------------------------------------------
(* self.question_data: an insertion-ordered dict topic -> list of          *)
(* {index, marks}, kept as the sequence of its (topic, questions) entries. *)

Keys(qd) == [i \in DOMAIN qd |-> qd[i].topic]

HasKey(qd, topic) == \E i \in DOMAIN qd : qd[i].topic = topic

\* self.question_data.get(topic, [])
Get(qd, topic) ==
    IF HasKey(qd, topic)
    THEN qd[CHOOSE i \in DOMAIN qd : qd[i].topic = topic].questions
    ELSE <<>>

\* self.question_data.setdefault(topic, []).append(item)
SetDefaultAppend(qd, topic, item) ==
    IF HasKey(qd, topic)
    THEN [i \in DOMAIN qd |->
            IF qd[i].topic = topic
            THEN [qd[i] EXCEPT !.questions = Append(@, item)]
            ELSE qd[i]]
    ELSE Append(qd, [topic |-> topic, questions |-> <<item>>])

\* The body of `for row in reader`: one row read into question_data.
ReadRow(qd, row) ==
    SetDefaultAppend(qd, row.Topic, [index |-> row.Index, marks |-> int(row.Marks)])

\* The reader loop from row i on: it ends at the end of the file or at the
\* first row whose Marks int() refuses, with what it has stored so far.
RECURSIVE ReadRows(_, _, _)
ReadRows(qd, rows, i) ==
    IF i > Len(rows) THEN [data |-> qd, raised |-> FALSE]
    ELSE IF ~IsIntLiteral(rows[i].Marks) THEN [data |-> qd, raised |-> TRUE]
    ELSE ReadRows(ReadRow(qd, rows[i]), rows, i + 1)

\* load_question_data(paper_name) with `file` at csv_path.
load_question_data(paper_name, file) ==
    IF paper_name \notin Range(Papers) THEN [data |-> <<>>, raised |-> FALSE]
    ELSE IF ~file.exists THEN [data |-> <<>>, raised |-> FALSE]
    ELSE ReadRows(<<>>, file.rows, 1)

------------------------------------------------------------------------------
(* The files the model reads.                                              *)

NoFile == [exists |-> FALSE, rows |-> <<>>]
File(rows) == [exists |-> TRUE, rows |-> rows]

DropTopic(rows, topic) == SelectSeq(rows, LAMBDA r : r.Topic # topic)

\* rows with the row `bad` put after its first n rows
BadAfter(rows, n, bad) ==
    SubSeq(rows, 1, n) \o <<bad>> \o SubSeq(rows, n + 1, Len(rows))

BadCells == {<<>>, <<"7", ".", "5">>, <<"x">>}

Rows_9231_p3 ==
    << Row("Projectile Motion", "pm1", 5),
       Row("Center of Mass", "com1", 5),
       Row("Projectile Motion", "pm2", 7),
       Row("Center of Mass", "com2", 7),
       Row("Circular Motion", "cm1", 7),
       Row("Circular Motion", "cm2", 8),
       Row("Hooke's Law", "hl1", 9),
       Row("General Straight Motion", "gsm1", 7),
       Row("Momentum", "mom1", 7),
       Row("Equilibrium of Rigid Body", "eq1", 8),
       Row("Equilibrium of Rigid Body", "eq2", 10),
       Row("Equilibrium of Rigid Body", "eq3", 12) >>

\* Six core topics of 8 marks each and a 2-mark question in the extra pool.
Rows_9231_p3_eights ==
    << Row("Projectile Motion", "pm8", 8),
       Row("Center of Mass", "com8", 8),
       Row("Circular Motion", "cm8", 8),
       Row("Hooke's Law", "hl8", 8),
       Row("General Straight Motion", "gsm8", 8),
       Row("Momentum", "mom8", 8),
       Row("Momentum", "mom7", 7),
       Row("Equilibrium of Rigid Body", "eq2m", 2),
       Row("Equilibrium of Rigid Body", "eq3m", 3) >>

BadFiles(rows) ==
    { File(BadAfter(rows, n, BadRow("Momentum", "bad", cell))) :
        n \in 0..MaxBadRow, cell \in BadCells }

Files_9231_p3 ==
    { File(Rows_9231_p3), File(Rows_9231_p3_eights), File(<<>>), NoFile,
      File(DropTopic(Rows_9231_p3, "Momentum")),
      File(DropTopic(Rows_9231_p3, "Projectile Motion")),
      File(DropTopic(Rows_9231_p3, "Equilibrium of Rigid Body")) }
    \cup BadFiles(Rows_9231_p3)

Rows_9231_p4 ==
    << Row("Chi-square Test (contingency table)", "ct1", 12),
       Row("Continuous Random Variable", "crv1", 12),
       Row("Probability Generating Function", "pgf1", 12),
       Row("Chi-square Test (goodness of fit)", "gof1", 10),
       Row("Chi-square Test (contingency table)", "ct2", 6),
       Row("Confidence Interval", "ci1", 4),
       Row("Wilcoxon Test (signed-rank)", "wsr1", 6),
       Row("t-Test (paired sample)", "tp1", 4),
       Row("t-Test (single sample)", "ts1", 6) >>

Files_9231_p4 ==
    { File(Rows_9231_p4), File(<<>>), NoFile,
      File(DropTopic(Rows_9231_p4, "Probability Generating Function")),
      File(DropTopic(DropTopic(Rows_9231_p4, "Chi-square Test (contingency table)"),
                     "Chi-square Test (goodness of fit)")) }
    \cup BadFiles(Rows_9231_p4)

Rows_9709_p3 ==
    << Row("Modulus Inequality", "mi1", 7),
       Row("Binomial Expansion", "be1", 7),
       Row("Numerical Method of Solving Equation", "nm1", 7),
       Row("Trigonometric Identities", "ti1", 7),
       Row("Vectors", "v1", 7),
       Row("Differential Equations", "de1", 7),
       Row("Integration by Parts", "ibp1", 7),
       Row("Complex Numbers", "cn1", 8),
       Row("Factor and Remainder Theorems", "frt1", 6),
       Row("Integration by Substitution", "ibs1", 6),
       Row("Integration by Partial Fraction", "ipf1", 5),
       Row("Exponential Equation and Inequality", "eei1", 6),
       Row("Linearization Using Logarithm", "lul1", 6),
       Row("Logarithmic Equation", "le1", 6),
       Row("Parametric Differentiation", "pd1", 6),
       Row("Implicit Differentiation", "id1", 6),
       Row("Auxiliary Angle Method", "aam1", 9),
       Row("Auxiliary Angle Method", "aam2", 7),
       Row("Product Rule and Quotient Rule", "prq1", 6) >>

Files_9709_p3 ==
    { File(Rows_9709_p3), File(<<>>), NoFile,
      File(DropTopic(Rows_9709_p3, "Integration by Parts")),
      File(DropTopic(Rows_9709_p3, "Vectors")),
      File(DropTopic(Rows_9709_p3, "Complex Numbers")),
      File(DropTopic(Rows_9709_p3, "Logarithmic Equation")),
      File(DropTopic(Rows_9709_p3, "Integration by Parts")
           \o <<Row("Vectors", "v2", 14)>>),
      File(Rows_9709_p3 \o <<Row("Vectors", "v0", 1)>>) }
    \cup BadFiles(Rows_9709_p3)

\* What may lie at csv_path when paper_name is selected.
CsvInputs(paper_name) ==
    CASE paper_name = "9231 Paper 3" -> Files_9231_p3
      [] paper_name = "9231 Paper 4" -> Files_9231_p4
      [] paper_name = "9709 Paper 3" -> Files_9709_p3
      [] OTHER -> {NoFile}

------------------------------------------------------------------------------
(* Helpers of the selection routines.                                      *)

\* random.choice(pool): the index drawn, 0 for the IndexError of an empty pool
RandomChoice(pool) == IF pool = <<>> THEN {0} ELSE DOMAIN pool

\* [(t, q) for t in topics for q in self.question_data.get(t, [])]
RECURSIVE Pairs(_, _)
Pairs(qd, topics) ==
    IF topics = <<>> THEN <<>>
    ELSE [i \in DOMAIN Get(qd, Head(topics)) |->
             <<Head(topics), Get(qd, Head(topics))[i]>>]
         \o Pairs(qd, Tail(topics))

\* sum(q["marks"] for _, q in selected)
RECURSIVE SumMarks(_)
SumMarks(sel) ==
    IF sel = <<>> THEN 0 ELSE sel[1][2].marks + SumMarks(Tail(sel))

\* `if q["marks"] < 6: below_6 += 1`
Below6(q) == IF q.marks < 6 THEN 1 ELSE 0

NewLocals ==
    [selected |-> <<>>, used_topics |-> {}, total |-> 0, below_6 |-> 0,
     raised |-> FALSE]

\* The locals as the running attempt has them.
AttemptLocals ==
    [selected |-> selected, used_topics |-> used_topics, total |-> total,
     below_6 |-> below_6, raised |-> FALSE]

None == [is_none |-> TRUE, items |-> <<>>]
Returned(items) == [is_none |-> FALSE, items |-> items]

\* the next iteration without the assignments that open it
Continue_KeepLocals(first) ==
    IF attempt < MaxAttempts
    THEN /\ attempt' = attempt + 1
         /\ pc' = first
         /\ UNCHANGED <<locals, result>>
    ELSE /\ pc' = "done"
         /\ result' = None
         /\ UNCHANGED <<attempt, locals>>

\* `continue`, or the end of an iteration: the next iteration starts from
\* fresh locals at the routine's first pass; after the last one the routine
\* returns None.
Continue(first) ==
    IF attempt < MaxAttempts
    THEN /\ attempt' = attempt + 1
         /\ pc' = first
         /\ selected' = NewLocals.selected
         /\ used_topics' = NewLocals.used_topics
         /\ total' = NewLocals.total
         /\ below_6' = NewLocals.below_6
         /\ UNCHANGED result
    ELSE /\ pc' = "done"
         /\ result' = None
         /\ UNCHANGED <<attempt, locals>>

\* `return selected`
Return(items) ==
    /\ pc' = "done"
    /\ result' = Returned(items)
    /\ selected' = items
    /\ UNCHANGED <<attempt, used_topics, total, below_6>>

\* An uncaught exception leaves the handler.
Raise ==
    /\ pc' = "raised"
    /\ UNCHANGED <<attempt, locals, result>>

------------------------------------------------------------------------------
(* random_select_9231_p3                                                   *)

\* One pass of the loop over core_topics from core_topics[i] on: every
\* outcome of its draws.
R9231P3CorePick(st, topic, q) ==
    [st EXCEPT !.selected = Append(@, <<topic, q>>),
               !.used_topics = @ \cup {topic},
               !.total = @ + q.marks,
               !.below_6 = @ + Below6(q)]

RECURSIVE R9231P3CoreLoop(_, _, _)
R9231P3CoreLoop(qd, st, i) ==
    IF i > Len(core_topics) THEN {st}
    ELSE LET questions == Get(qd, core_topics[i]) IN
         IF questions = <<>> THEN {st}
         ELSE UNION { IF d = 0 THEN {[st EXCEPT !.raised = TRUE]}
                      ELSE R9231P3CoreLoop(qd, R9231P3CorePick(st, core_topics[i], questions[d]), i + 1)
                      : d \in RandomChoice(questions) }

\* the same test without its length check, and with the cap at 48
R9231P3Abandon_NoLength(sel, tot) == tot > 44
R9231P3Abandon_Cap48(sel, tot) == Len(sel) < 6 \/ tot > 48
\* and without any cap
R9231P3Abandon_NoCap(sel, tot) == Len(sel) < 6

\* `if len(selected) < 6 or total > 44: continue`
R9231P3Abandon(sel, tot) == Len(sel) < 6 \/ tot > 44

\* the same test with `<=` for `==`
R9231P3IsCandidate_AtMost(q, tot, b6) ==
    /\ tot + q.marks <= target_9231_p3
    /\ b6 + Below6(q) <= 1

\* The test a question of the extra pool passes to become a candidate.
R9231P3IsCandidate(q, tot, b6) ==
    /\ tot + q.marks = target_9231_p3
    /\ b6 + Below6(q) <= 1

R9231P3Candidates(qd, tot, b6) ==
    SelectSeq(Pairs(qd, extra_pool), LAMBDA p : R9231P3IsCandidate(p[2], tot, b6))

R9231P3Core ==
    /\ pc = "9231_p3_core"
    /\ \E st \in R9231P3CoreLoop(question_data, AttemptLocals, 1) :
          /\ selected' = st.selected
          /\ used_topics' = st.used_topics
          /\ total' = st.total
          /\ below_6' = st.below_6
          /\ pc' = IF st.raised THEN "raised" ELSE "9231_p3_extra"
    /\ UNCHANGED <<component, csv, question_data, load_raised, attempt, result>>
    /\ UNCHANGED window

R9231P3Extra ==
    /\ pc = "9231_p3_extra"
    /\ IF R9231P3Abandon(selected, total) THEN Continue("9231_p3_core")
       ELSE LET candidates == R9231P3Candidates(question_data, total, below_6) IN
            IF candidates = <<>> THEN Continue("9231_p3_core")
            ELSE \E d \in RandomChoice(candidates) :
                    IF d = 0 THEN Raise
                    ELSE Return(Append(selected, candidates[d]))
    /\ UNCHANGED <<component, csv, question_data, load_raised>>
    /\ UNCHANGED window

------------------------------------------------------------------------------
(* random_select_9231_p4                                                   *)

NoPick == <<>>                   \* None
IndexError == <<"IndexError">>   \* random.choice raised

\* choose without its `if pool else None`
choose_unguarded(qd, topics) ==
    { IF d = 0 THEN IndexError ELSE Pairs(qd, topics)[d]
      : d \in RandomChoice(Pairs(qd, topics)) }

\* choose(topics): every value it can return
choose(qd, topics) ==
    IF Pairs(qd, topics) # <<>>
    THEN { Pairs(qd, topics)[d] : d \in RandomChoice(Pairs(qd, topics)) }
    ELSE {NoPick}

R9231P4Pick(st, pick) ==
    [st EXCEPT !.selected = Append(@, pick),
               !.used_topics = @ \cup {pick[1]},
               !.below_6 = @ + Below6(pick[2])]

\* `for key in ["chi", "crv", "pgf"]` from required_keys[i] on
RECURSIVE R9231P4RequiredLoop(_, _, _)
R9231P4RequiredLoop(qd, st, i) ==
    IF i > Len(required_keys) THEN {st}
    ELSE UNION { IF pick = IndexError THEN {[st EXCEPT !.raised = TRUE]}
                 ELSE IF pick = NoPick THEN {st}
                 ELSE R9231P4RequiredLoop(qd, R9231P4Pick(st, pick), i + 1)
                 : pick \in choose(qd, groups[required_keys[i]]) }

\* `if current_total > target - 10 or below_6 > 1: continue`
R9231P4AbandonFourth(cur, b6) == cur > target_9231_p4 - 10 \/ b6 > 1

\* fifth_candidates
R9231P4FifthCandidates(qd, used, cur) ==
    SelectSeq(Pairs(qd, SelectSeq(groups.twci, LAMBDA t : t \notin used)),
              LAMBDA p : cur + p[2].marks < target_9231_p4)

\* `if below_6 > 1: continue` after the fifth pick
R9231P4AbandonFifth(b6) == b6 > 1

\* final_candidates without its `if t not in used_topics`
R9231P4FinalCandidates_AnyTopic(qd, used, cur) ==
    SelectSeq(Pairs(qd, Keys(qd)), LAMBDA p : cur + p[2].marks = target_9231_p4)

\* final_candidates
R9231P4FinalCandidates(qd, used, cur) ==
    SelectSeq(Pairs(qd, SelectSeq(Keys(qd), LAMBDA t : t \notin used)),
              LAMBDA p : cur + p[2].marks = target_9231_p4)

\* `if len(selected) == 6 and sum(...) == target`
R9231P4Accept(sel) == Len(sel) = 6 /\ SumMarks(sel) = target_9231_p4

R9231P4Required ==
    /\ pc = "9231_p4_required"
    /\ \E st \in R9231P4RequiredLoop(question_data, AttemptLocals, 1) :
          /\ selected' = st.selected
          /\ used_topics' = st.used_topics
          /\ below_6' = st.below_6
          /\ pc' = IF st.raised THEN "raised" ELSE "9231_p4_fourth"
    /\ UNCHANGED <<component, csv, question_data, load_raised, attempt, total, result>>
    /\ UNCHANGED window

R9231P4Fourth ==
    /\ pc = "9231_p4_fourth"
    /\ \E pick4 \in choose(question_data, groups.twci) :
          IF pick4 = IndexError THEN Raise
          ELSE IF pick4 = NoPick THEN Continue("9231_p4_required")
          ELSE LET sel == Append(selected, pick4)
                   b6 == below_6 + Below6(pick4[2])
               IN  IF R9231P4AbandonFourth(SumMarks(sel), b6)
                   THEN Continue("9231_p4_required")
                   ELSE /\ selected' = sel
                        /\ used_topics' = used_topics \cup {pick4[1]}
                        /\ below_6' = b6
                        /\ total' = SumMarks(sel)
                        /\ pc' = "9231_p4_fifth"
                        /\ UNCHANGED <<attempt, result>>
    /\ UNCHANGED <<component, csv, question_data, load_raised>>
    /\ UNCHANGED window

R9231P4Fifth ==
    /\ pc = "9231_p4_fifth"
    /\ LET fifth_candidates == R9231P4FifthCandidates(question_data, used_topics, total) IN
       IF fifth_candidates = <<>> THEN Continue("9231_p4_required")
       ELSE \E d \in RandomChoice(fifth_candidates) :
               IF d = 0 THEN Raise
               ELSE LET pick5 == fifth_candidates[d] IN
                    IF R9231P4AbandonFifth(below_6 + Below6(pick5[2]))
                    THEN Continue("9231_p4_required")
                    ELSE /\ selected' = Append(selected, pick5)
                         /\ used_topics' = used_topics \cup {pick5[1]}
                         /\ total' = total + pick5[2].marks
                         /\ below_6' = below_6 + Below6(pick5[2])
                         /\ pc' = "9231_p4_final"
                         /\ UNCHANGED <<attempt, result>>
    /\ UNCHANGED <<component, csv, question_data, load_raised>>
    /\ UNCHANGED window

R9231P4Final ==
    /\ pc = "9231_p4_final"
    /\ LET final_candidates == R9231P4FinalCandidates(question_data, used_topics, total) IN
       IF final_candidates = <<>> THEN Continue("9231_p4_required")
       ELSE \E d \in RandomChoice(final_candidates) :
               IF d = 0 THEN Raise
               ELSE IF R9231P4Accept(Append(selected, final_candidates[d]))
                    THEN Return(Append(selected, final_candidates[d]))
                    ELSE Continue("9231_p4_required")
    /\ UNCHANGED <<component, csv, question_data, load_raised>>
    /\ UNCHANGED window

------------------------------------------------------------------------------
(* random_select_9709_p3                                                   *)

R9709P3Pick(st, topic, q) ==
    [st EXCEPT !.selected = Append(@, <<topic, q>>),
               !.used_topics = @ \cup {topic},
               !.total = @ + q.marks]

\* `for topic in must_have_once` from must_have_once[i] on
RECURSIVE R9709P3RequiredLoop(_, _, _)
R9709P3RequiredLoop(qd, st, i) ==
    IF i > Len(must_have_once) THEN {st}
    ELSE LET q_list == Get(qd, must_have_once[i]) IN
         IF q_list = <<>> THEN {st}
         ELSE UNION { IF d = 0 THEN {[st EXCEPT !.raised = TRUE]}
                      ELSE R9709P3RequiredLoop(qd, R9709P3Pick(st, must_have_once[i], q_list[d]), i + 1)
                      : d \in RandomChoice(q_list) }

\* pick_unique(topic_list): every value it can return
pick_unique(qd, used, topic_list) ==
    UNION { LET topic == topic_list[c]
                questions == SelectSeq(Get(qd, topic), LAMBDA q : topic \notin used)
            IN  IF questions # <<>>
                THEN { <<topic, questions[d]>> : d \in RandomChoice(questions) }
                ELSE {NoPick}
            : c \in RandomChoice(topic_list) }

\* `for group in one_of_sets` from one_of_sets[i] on
RECURSIVE R9709P3OneOfLoop(_, _, _)
R9709P3OneOfLoop(qd, st, i) ==
    IF i > Len(one_of_sets) THEN {st}
    ELSE UNION { IF pick # NoPick
                 THEN R9709P3OneOfLoop(qd, R9709P3Pick(st, pick[1], pick[2]), i + 1)
                 ELSE R9709P3OneOfLoop(qd, st, i + 1)
                 : pick \in pick_unique(qd, st.used_topics, one_of_sets[i]) }

\* `total == target and 10 <= len(selected) <= 11`
R9709P3Accept(sel, tot) ==
    tot = target_9709_p3 /\ 10 <= Len(sel) /\ Len(sel) <= 11

\* the same test always passing
R9709P3Fits_Always(tot, q) == TRUE

\* `if total + q["marks"] <= target`
R9709P3Fits(tot, q) == tot + q.marks <= target_9709_p3

\* the same test never passing
R9709P3Full_Never(sel) == FALSE

\* `if len(selected) >= 11: break`
R9709P3Full(sel) == Len(sel) >= 11

\* One iteration of `for q in self.question_data.get(topic, [])`.
R9709P3FillStep(st, topic, q) ==
    IF topic \in st.used_topics THEN st
    ELSE IF R9709P3Full(st.selected) THEN [st EXCEPT !.broke = TRUE]
    ELSE LET added == IF R9709P3Fits(st.total, q)
                      THEN [st EXCEPT !.selected = Append(@, <<topic, q>>),
                                      !.used_topics = @ \cup {topic},
                                      !.total = @ + q.marks]
                      ELSE st
         IN  [added EXCEPT !.returned = R9709P3Accept(added.selected, added.total)]

RECURSIVE R9709P3FillQuestions(_, _, _, _)
R9709P3FillQuestions(st, topic, questions, j) ==
    IF j > Len(questions) \/ st.broke \/ st.returned THEN st
    ELSE R9709P3FillQuestions(R9709P3FillStep(st, topic, questions[j]), topic, questions, j + 1)

\* `for topic in fillers` from fillers[i] on
RECURSIVE R9709P3FillLoop(_, _, _, _)
R9709P3FillLoop(qd, st, fillers, i) ==
    IF i > Len(fillers) \/ st.returned THEN st
    ELSE R9709P3FillLoop(
            qd,
            R9709P3FillQuestions([st EXCEPT !.broke = FALSE], fillers[i], Get(qd, fillers[i]), 1),
            fillers, i + 1)

\* The filler pass and the check after it: the locals it ends with and
\* whether the routine returns them.
R9709P3Fill(qd, sel, used, tot) ==
    LET fillers == SelectSeq(filler_pool, LAMBDA t : t \notin used)
        st == R9709P3FillLoop(qd, [selected |-> sel, used_topics |-> used, total |-> tot,
                                   broke |-> FALSE, returned |-> FALSE], fillers, 1)
    IN  [st EXCEPT !.returned = st.returned \/ R9709P3Accept(st.selected, st.total)]

R9709P3Required ==
    /\ pc = "9709_p3_required"
    /\ \E st \in R9709P3RequiredLoop(question_data, AttemptLocals, 1) :
          /\ selected' = st.selected
          /\ used_topics' = st.used_topics
          /\ total' = st.total
          /\ pc' = IF st.raised THEN "raised" ELSE "9709_p3_at_least"
    /\ UNCHANGED <<component, csv, question_data, load_raised, attempt, below_6, result>>
    /\ UNCHANGED window

R9709P3AtLeast ==
    /\ pc = "9709_p3_at_least"
    /\ LET q_list == Get(question_data, "Complex Numbers") IN
       IF q_list # <<>> /\ "Complex Numbers" \notin used_topics
       THEN \E d \in RandomChoice(q_list) :
               IF d = 0 THEN Raise
               ELSE /\ selected' = Append(selected, <<"Complex Numbers", q_list[d]>>)
                    /\ used_topics' = used_topics \cup {"Complex Numbers"}
                    /\ total' = total + q_list[d].marks
                    /\ pc' = "9709_p3_one_of"
                    /\ UNCHANGED <<attempt, below_6, result>>
       ELSE /\ pc' = "9709_p3_one_of"
            /\ UNCHANGED <<attempt, locals, result>>
    /\ UNCHANGED <<component, csv, question_data, load_raised>>
    /\ UNCHANGED window

R9709P3OneOf ==
    /\ pc = "9709_p3_one_of"
    /\ \E st \in R9709P3OneOfLoop(question_data, AttemptLocals, 1) :
          /\ selected' = st.selected
          /\ used_topics' = st.used_topics
          /\ total' = st.total
          /\ pc' = "9709_p3_fill"
    /\ UNCHANGED <<component, csv, question_data, load_raised, attempt, below_6, result>>
    /\ UNCHANGED window

R9709P3Filler ==
    /\ pc = "9709_p3_fill"
    /\ LET st == R9709P3Fill(question_data, selected, used_topics, total) IN
       IF st.returned THEN Return(st.selected) ELSE Continue("9709_p3_required")
    /\ UNCHANGED <<component, csv, question_data, load_raised>>
    /\ UNCHANGED window

------------------------------------------------------------------------------
(* The window: the question rows, the footer buttons and the total.  A     *)
(* QComboBox is its list of items and its currentText(), which is "" when  *)
(* the list is empty; the question indices of a topic are distinct, so the *)
(* current text stands for the current item.  A slot connected to          *)
(* currentTextChanged runs inside the call that changes the text.          *)

SelectTopic == "(Select Topic)"
SelectQuestion == "(Select Question)"
NoText == ""
Dash == <<"em dash">>    \* the text after "Marks: " of an unset mark label

\* The topics the files name, in the order of Python's sorted().
TopicOrder ==
    <<"Auxiliary Angle Method", "Binomial Expansion", "Center of Mass",
      "Chi-square Test (contingency table)",
      "Chi-square Test (goodness of fit)", "Circular Motion",
      "Complex Numbers", "Confidence Interval", "Continuous Random Variable",
      "Differential Equations", "Equilibrium of Rigid Body",
      "Exponential Equation and Inequality", "Factor and Remainder Theorems",
      "General Straight Motion", "Hooke's Law", "Implicit Differentiation",
      "Integration by Partial Fraction", "Integration by Parts",
      "Integration by Substitution", "Linearization Using Logarithm",
      "Logarithmic Equation", "Modulus Inequality", "Momentum",
      "Numerical Method of Solving Equation", "Parametric Differentiation",
      "Probability Generating Function", "Product Rule and Quotient Rule",
      "Projectile Motion", "Trigonometric Identities", "Vectors",
      "Wilcoxon Test (rank-sum)", "Wilcoxon Test (signed-rank)",
      "t-Test (paired sample)", "t-Test (pooled sample)",
      "t-Test (single sample)">>

\* sorted(self.question_data.keys())
sorted_keys(qd) == SelectSeq(TopicOrder, LAMBDA t : HasKey(qd, t))

\* QComboBox.clear, addItem, addItems, setCurrentText, setCurrentIndex(0)
clear(box) == [box EXCEPT !.items = <<>>, !.text = NoText]

addItems(box, texts) ==
    [box EXCEPT !.items = @ \o texts,
                !.text = IF box.items = <<>> /\ texts # <<>> THEN texts[1] ELSE @]

addItem(box, text) == addItems(box, <<text>>)

setCurrentText(box, text) ==
    IF text \in Range(box.items) THEN [box EXCEPT !.text = text] ELSE box

setCurrentIndex0(box) ==
    IF box.items # <<>> THEN [box EXCEPT !.text = box.items[1]] ELSE box

\* The window as the handlers below take it and leave it.
Window ==
    [question_rows |-> question_rows, sort_button |-> sort_button,
     copy_btn |-> copy_btn, preview_btn |-> preview_btn, save_btn |-> save_btn,
     total_score_label |-> total_score_label]

\* The row add_question_row appends: no slot runs while it is made, since
\* each box has its first item before its signal is connected.
NewRow(qd) ==
    [topic_box |-> addItems(addItem([items |-> <<>>, text |-> NoText], SelectTopic),
                            sorted_keys(qd)),
     question_box |-> [items |-> <<SelectQuestion>>, text |-> SelectQuestion,
                       enabled |-> FALSE],
     mark_label |-> Dash,
     preview_button |-> FALSE]

\* add_question_row
add_question_row(w, qd) == [w EXCEPT !.question_rows = Append(@, NewRow(qd))]

\* reset_question_rows(count)
reset_question_rows(w, qd, count) ==
    [w EXCEPT !.question_rows = [i \in 1..count |-> NewRow(qd)]]

(* The calls a handler makes on one row change that row alone, and         *)
(* update_footer_buttons_state and update_total_score read of it only the  *)
(* text of its question box and its mark label.  So the calls on a row are *)
(* followed on the row itself: `row` is the row, `footer` the text of its  *)
(* question box at the last update_footer_buttons_state so far and `total` *)
(* its mark label at the last update_total_score so far, each <<>> while   *)
(* there was no such call.  A slot of row idx runs only while the row is   *)
(* there, so the test idx >= len(self.question_rows) never returns.        *)

Calls(row) == [row |-> row, footer |-> <<>>, total |-> <<>>]

\* What the last of the calls leaves, the calls listed in the order in which
\* they are made.
Last(calls) == calls[Len(calls)]

\* update_mark_display(idx)
update_mark_display(x, qd) ==
    LET index == x.row.question_box.text
        found == SelectSeq(Get(qd, x.row.topic_box.text),
                           LAMBDA item : item.index = index)
        label == IF found # <<>> THEN Cell(found[1].marks) ELSE x.row.mark_label
    IN  [row |-> [x.row EXCEPT !.mark_label = label,
                               !.preview_button =
                                   (index # NoText /\ index # SelectQuestion)],
         footer |-> <<index>>,
         total |-> <<label>>]

\* A call on the question box of the row that leaves it as `box`, and the
\* slot of its currentTextChanged.
QuestionBox(x, qd, box) ==
    IF x.row.question_box.text # box.text
    THEN update_mark_display([x EXCEPT !.row.question_box = box], qd)
    ELSE [x EXCEPT !.row.question_box = box]

\* row["question_box"].clear(), .addItem(text), .addItems(texts),
\* .setCurrentText(text), .setCurrentIndex(0)
QuestionBox_clear(x, qd) == QuestionBox(x, qd, clear(x.row.question_box))
QuestionBox_addItem(x, qd, text) ==
    QuestionBox(x, qd, addItem(x.row.question_box, text))
QuestionBox_addItems(x, qd, texts) ==
    QuestionBox(x, qd, addItems(x.row.question_box, texts))
QuestionBox_setCurrentText(x, qd, text) ==
    QuestionBox(x, qd, setCurrentText(x.row.question_box, text))
QuestionBox_setCurrentIndex0(x, qd) ==
    QuestionBox(x, qd, setCurrentIndex0(x.row.question_box))

\* update_question_list(idx)
update_question_list(x, qd) ==
    LET questions == Get(qd, x.row.topic_box.text)
        x1 == [x EXCEPT !.row.question_box.enabled = HasKey(qd, x.row.topic_box.text)]
        x2 == QuestionBox_clear(x1, qd)
        x3 == QuestionBox_addItem(x2, qd, SelectQuestion)
        x4 == QuestionBox_addItems(x3, qd,
                                   [i \in DOMAIN questions |-> questions[i].index])
    IN  Last(<<x1, x2, x3, x4,
               [x4 EXCEPT !.row.mark_label = Dash, !.total = <<Dash>>]>>)

\* A call on the topic box of the row that leaves it as `box`, and the slot
\* of its currentTextChanged.
TopicBox(x, qd, box) ==
    IF x.row.topic_box.text # box.text
    THEN update_question_list([x EXCEPT !.row.topic_box = box], qd)
    ELSE [x EXCEPT !.row.topic_box = box]

\* row["topic_box"].clear(), .addItem(text), .addItems(texts),
\* .setCurrentText(text), .setCurrentIndex(0)
TopicBox_clear(x, qd) == TopicBox(x, qd, clear(x.row.topic_box))
TopicBox_addItem(x, qd, text) == TopicBox(x, qd, addItem(x.row.topic_box, text))
TopicBox_addItems(x, qd, texts) == TopicBox(x, qd, addItems(x.row.topic_box, texts))
TopicBox_setCurrentText(x, qd, text) ==
    TopicBox(x, qd, setCurrentText(x.row.topic_box, text))
TopicBox_setCurrentIndex0(x, qd) == TopicBox(x, qd, setCurrentIndex0(x.row.topic_box))

\* update_footer_buttons_state, texts[i] the text of the question box of row i
update_footer_buttons_state(w, texts) ==
    LET any_selected == \E i \in DOMAIN texts : texts[i] # SelectQuestion
    IN  [w EXCEPT !.preview_btn = any_selected,
                  !.save_btn = any_selected,
                  !.copy_btn = any_selected,
                  !.sort_button = any_selected]

\* update_total_score, labels[i] the mark label of row i after "Marks: "
RECURSIVE SumLabels(_, _)
SumLabels(labels, n) ==
    IF n = 0 THEN 0
    ELSE SumLabels(labels, n - 1)
         + (IF IsIntLiteral(labels[n]) THEN int(labels[n]) ELSE 0)

update_total_score(w, labels) ==
    [w EXCEPT !.total_score_label = SumLabels(labels, Len(labels))]

MarkLabels(rows) == [i \in DOMAIN rows |-> rows[i].mark_label]

\* The last of the rows whose calls reached the slot, 0 when none did.
LastCall(reached) ==
    IF reached = {} THEN 0 ELSE CHOOSE k \in reached : \A j \in reached : j <= k

(* The window after a handler that went through the rows of w in order and *)
(* made the calls runs[i] on row i.  The last update_footer_buttons_state  *)
(* and the last update_total_score found the rows before theirs as the     *)
(* handler leaves them and the rows after theirs as the handler found them.*)
AfterCalls(w, runs) ==
    LET kf == LastCall({i \in DOMAIN runs : runs[i].footer # <<>>})
        kt == LastCall({i \in DOMAIN runs : runs[i].total # <<>>})
        texts == [i \in DOMAIN runs |->
                     IF i < kf THEN runs[i].row.question_box.text
                     ELSE IF i = kf THEN runs[i].footer[1]
                     ELSE w.question_rows[i].question_box.text]
        labels == [i \in DOMAIN runs |->
                      IF i < kt THEN runs[i].row.mark_label
                      ELSE IF i = kt THEN runs[i].total[1]
                      ELSE w.question_rows[i].mark_label]
        w1 == [w EXCEPT !.question_rows = [i \in DOMAIN runs |-> runs[i].row]]
        w2 == IF kf = 0 THEN w1 ELSE update_footer_buttons_state(w1, texts)
    IN  IF kt = 0 THEN w2 ELSE update_total_score(w2, labels)

\* The calls `calls` on row idx and none on the other rows.
OnRow(w, idx, calls) ==
    AfterCalls(w, [i \in DOMAIN w.question_rows |->
                      IF i = idx THEN calls ELSE Calls(w.question_rows[i])])

\* remove_last_question_row
remove_last_question_row(w) ==
    IF Len(w.question_rows) > 1
    THEN update_total_score(
            [w EXCEPT !.question_rows = SubSeq(@, 1, Len(@) - 1)],
            MarkLabels(SubSeq(w.question_rows, 1, Len(w.question_rows) - 1)))
    ELSE w

------------------------------------------------------------------------------
(* The selection routines as perform_random_selection sees them: what one  *)
(* attempt can end in, and so what the call can end in, since the call     *)
(* returns the first selection an attempt returns and None when all of its *)
(* attempts are abandoned.                                                 *)

Continues == [kind |-> "continue", items |-> <<>>]
Raises == [kind |-> "raise", items |-> <<>>]
Returns(items) == [kind |-> "return", items |-> items]

Attempt9231P3(qd) ==
    UNION { IF st.raised THEN {Raises}
            ELSE IF R9231P3Abandon(st.selected, st.total) THEN {Continues}
            ELSE LET candidates == R9231P3Candidates(qd, st.total, st.below_6) IN
                 IF candidates = <<>> THEN {Continues}
                 ELSE { Returns(Append(st.selected, candidates[d]))
                        : d \in DOMAIN candidates }
            : st \in R9231P3CoreLoop(qd, NewLocals, 1) }

\* The attempt of random_select_9231_p4 from its fifth pick on.
Attempt9231P4Fifth(qd, sel, used, cur, b6) ==
    LET fifth_candidates == R9231P4FifthCandidates(qd, used, cur) IN
    IF fifth_candidates = <<>> THEN {Continues}
    ELSE UNION {
           LET pick5 == fifth_candidates[d]
               final_candidates ==
                   R9231P4FinalCandidates(qd, used \cup {pick5[1]}, cur + pick5[2].marks)
           IN  IF R9231P4AbandonFifth(b6 + Below6(pick5[2])) THEN {Continues}
               ELSE IF final_candidates = <<>> THEN {Continues}
               ELSE { IF R9231P4Accept(Append(Append(sel, pick5), final_candidates[e]))
                      THEN Returns(Append(Append(sel, pick5), final_candidates[e]))
                      ELSE Continues
                      : e \in DOMAIN final_candidates }
           : d \in DOMAIN fifth_candidates }

Attempt9231P4(qd) ==
    UNION { IF st.raised THEN {Raises}
            ELSE UNION {
                   IF pick4 = IndexError THEN {Raises}
                   ELSE IF pick4 = NoPick THEN {Continues}
                   ELSE IF R9231P4AbandonFourth(SumMarks(Append(st.selected, pick4)),
                                                st.below_6 + Below6(pick4[2]))
                        THEN {Continues}
                   ELSE Attempt9231P4Fifth(qd, Append(st.selected, pick4),
                                           st.used_topics \cup {pick4[1]},
                                           SumMarks(Append(st.selected, pick4)),
                                           st.below_6 + Below6(pick4[2]))
                   : pick4 \in choose(qd, groups.twci) }
            : st \in R9231P4RequiredLoop(qd, NewLocals, 1) }

\* The attempt of random_select_9709_p3 after its required topics.
Attempt9709P3AtLeast(qd, st) ==
    LET q_list == Get(qd, "Complex Numbers") IN
    IF q_list # <<>> /\ "Complex Numbers" \notin st.used_topics
    THEN { R9709P3Pick(st, "Complex Numbers", q_list[d]) : d \in DOMAIN q_list }
    ELSE {st}

Attempt9709P3(qd) ==
    UNION { IF st.raised THEN {Raises}
            ELSE UNION { { LET filled == R9709P3Fill(qd, s2.selected, s2.used_topics, s2.total)
                           IN  IF filled.returned THEN Returns(filled.selected)
                               ELSE Continues
                           : s2 \in R9709P3OneOfLoop(qd, s1, 1) }
                         : s1 \in Attempt9709P3AtLeast(qd, st) }
            : st \in R9709P3RequiredLoop(qd, NewLocals, 1) }

\* What a call of the paper's routine can end in.
random_select(paper, qd) ==
    CASE paper = "9231 Paper 4" -> Attempt9231P4(qd)
      [] paper = "9231 Paper 3" -> Attempt9231P3(qd)
      [] paper = "9709 Paper 3" -> Attempt9709P3(qd)

------------------------------------------------------------------------------
(* The handlers.                                                           *)

\* on_component_selected(paper_name), up to and including its call of
\* load_question_data.
on_component_selected ==
    /\ pc = "idle"
    /\ \E i \in DOMAIN ComponentItems :
         \E file \in CsvInputs(ComponentItems[i]) :
            LET loaded == load_question_data(ComponentItems[i], file) IN
            /\ ComponentItems[i] # component   \* currentTextChanged
            /\ component' = ComponentItems[i]
            /\ csv' = file
            /\ question_data' = loaded.data
            /\ load_raised' = loaded.raised
    /\ UNCHANGED <<pc, attempt, locals, result>>
    /\ UNCHANGED window

\* The routine perform_random_selection calls for the paper.
FirstPass(paper) ==
    CASE paper = "9231 Paper 4" -> "9231_p4_required"
      [] paper = "9231 Paper 3" -> "9231_p3_core"
      [] paper = "9709 Paper 3" -> "9709_p3_required"

\* perform_random_selection up to the call of the paper's routine
perform_random_selection ==
    /\ pc = "idle"
    /\ IF component \notin Range(Papers) THEN UNCHANGED <<pc, attempt, locals>>
       ELSE /\ pc' = FirstPass(component)
            /\ attempt' = 1
            /\ selected' = NewLocals.selected
            /\ used_topics' = NewLocals.used_topics
            /\ total' = NewLocals.total
            /\ below_6' = NewLocals.below_6
    /\ UNCHANGED <<component, csv, question_data, load_raised, result>>
    /\ UNCHANGED window

\* perform_random_selection after the routine has returned
selection_returned ==
    /\ pc = "done"
    /\ pc' = "idle"
    /\ attempt' = 0
    /\ selected' = <<>>
    /\ used_topics' = {}
    /\ total' = 0
    /\ below_6' = 0
    /\ result' = None
    /\ UNCHANGED <<component, csv, question_data, load_raised>>
    /\ UNCHANGED window

Init ==
    /\ component = NoComponent
    /\ csv = NoFile
    /\ question_data = <<>>
    /\ load_raised = FALSE
    /\ pc = "idle"
    /\ attempt = 0
    /\ selected = <<>>
    /\ used_topics = {}
    /\ total = 0
    /\ below_6 = 0
    /\ result = None
    /\ question_rows = [i \in 1..6 |-> NewRow(<<>>)]
    /\ random_btn = FALSE
    /\ sort_button = FALSE
    /\ copy_btn = FALSE
    /\ preview_btn = FALSE
    /\ save_btn = FALSE
    /\ total_score_label = 0

Next ==
    \/ on_component_selected
    \/ perform_random_selection
    \/ selection_returned
    \/ R9231P4Required
    \/ R9231P4Fourth
    \/ R9231P4Fifth
    \/ R9231P4Final
    \/ R9231P3Core
    \/ R9231P3Extra
    \/ R9709P3Required
    \/ R9709P3AtLeast
    \/ R9709P3OneOf
    \/ R9709P3Filler

Spec == Init /\ [][Next]_vars

------------------------------------------------------------------------------
(* The handlers of the window, each a single step: the selection routine   *)
(* runs to its end inside perform_random_selection.  The files read here   *)
(* are well-formed: PyQt6 ends the program when a slot raises.  After      *)
(* perform_random_selection pc is "returned" and result is what the        *)
(* routine gave it, until the next handler runs.                           *)

Waiting == pc \in {"idle", "returned"}

\* The end of a handler other than perform_random_selection.
Handled ==
    /\ pc' = "idle"
    /\ result' = None
    /\ UNCHANGED <<attempt, locals>>

SetWindow(w) ==
    \E v \in {w} :
        /\ question_rows' = v.question_rows
        /\ sort_button' = v.sort_button
        /\ copy_btn' = v.copy_btn
        /\ preview_btn' = v.preview_btn
        /\ save_btn' = v.save_btn
        /\ total_score_label' = v.total_score_label

\* One pass of the second loop `for row in self.question_rows` of
\* on_component_selected.
RefreshRow(row, qd) ==
    LET x1 == TopicBox_clear(Calls(row), qd)
        x2 == TopicBox_addItem(x1, qd, SelectTopic)
        x3 == TopicBox_addItems(x2, qd, sorted_keys(qd))
        x4 == QuestionBox_clear(x3, qd)
        x5 == QuestionBox_addItem(x4, qd, SelectQuestion)
    IN  Last(<<x1, x2, x3, x4, x5, [x5 EXCEPT !.row.mark_label = Dash]>>)

\* The rows after on_component_selected has loaded qd.
RefreshRows(w, qd) ==
    AfterCalls(w, [i \in DOMAIN w.question_rows |->
                      RefreshRow(w.question_rows[i], qd)])

\* What may lie at csv_path when paper_name is selected in the window.
WindowCsvInputs(paper_name) ==
    CASE paper_name = "9231 Paper 3" -> {File(Rows_9231_p3), NoFile}
      [] paper_name = "9231 Paper 4" -> {File(Rows_9231_p4), NoFile}
      [] paper_name = "9709 Paper 3" -> {File(Rows_9709_p3), NoFile}
      [] OTHER -> {NoFile}

\* on_component_selected(paper_name), the slot of component_box
ComponentChosen ==
    /\ Waiting
    /\ \E i \in DOMAIN ComponentItems :
         \E file \in WindowCsvInputs(ComponentItems[i]) :
          \E loaded \in {load_question_data(ComponentItems[i], file)} :
            /\ ComponentItems[i] # component   \* currentTextChanged
            /\ SetWindow(RefreshRows(Window, loaded.data))
            /\ component' = ComponentItems[i]
            /\ csv' = file
            /\ question_data' = loaded.data
            /\ load_raised' = loaded.raised
            /\ random_btn' = (ComponentItems[i] \in Range(Papers))
    /\ Handled

\* The rows and items a user of the model picks from.
EditRows ==
    DOMAIN question_rows \cap (MaxRows - MaxEdited + 1)..MaxRows

Choices(box) == { box.items[k] : k \in DOMAIN box.items \cap 1..(MaxChoice + 1) }

\* The user picks an item of the topic box of a row.
TopicChosen ==
    /\ Waiting
    /\ \E i \in EditRows :
         \E text \in Choices(question_rows[i].topic_box) :
            /\ text # question_rows[i].topic_box.text
            /\ SetWindow(OnRow(Window, i,
                               TopicBox_setCurrentText(Calls(question_rows[i]),
                                                       question_data, text)))
    /\ Handled
    /\ UNCHANGED <<component, csv, question_data, load_raised, random_btn>>

\* The user picks an item of the question box of a row.
QuestionChosen ==
    /\ Waiting
    /\ \E i \in EditRows :
         \E text \in Choices(question_rows[i].question_box) :
            /\ question_rows[i].question_box.enabled
            /\ text # question_rows[i].question_box.text
            /\ SetWindow(OnRow(Window, i,
                               QuestionBox_setCurrentText(Calls(question_rows[i]),
                                                          question_data, text)))
    /\ Handled
    /\ UNCHANGED <<component, csv, question_data, load_raised, random_btn>>

\* add_question_row, the slot of add_question_btn
AddQuestionClicked ==
    /\ Waiting
    /\ Len(question_rows) < MaxRows
    /\ SetWindow(add_question_row(Window, question_data))
    /\ Handled
    /\ UNCHANGED <<component, csv, question_data, load_raised, random_btn>>

\* remove_last_question_row, the slot of remove_question_btn
RemoveLastQuestionClicked ==
    /\ Waiting
    /\ Len(question_rows) \in EditRows
    /\ SetWindow(remove_last_question_row(Window))
    /\ Handled
    /\ UNCHANGED <<component, csv, question_data, load_raised, random_btn>>

expected_count(paper, items) ==
    CASE paper = "9231 Paper 4" -> 6
      [] paper = "9231 Paper 3" -> 7
      [] paper = "9709 Paper 3" -> IF items # <<>> THEN Len(items) ELSE 10

\* One pass of the loop `for i, row in enumerate(self.question_rows)` of
\* perform_random_selection, for a row that gets the selected `item`.
FillRow(row, qd, item) ==
    LET x1 == [Calls(row) EXCEPT !.row.question_box.enabled = TRUE,
                                 !.row.preview_button = TRUE]
        x2 == TopicBox_setCurrentText(x1, qd, item[1])
        x3 == update_question_list(x2, qd)
        x4 == QuestionBox_setCurrentText(x3, qd, item[2].index)
    IN  Last(<<x1, x2, x3, x4, update_mark_display(x4, qd)>>)

\* The same for a row past the selected items.
BlankRow(row, qd) ==
    LET x1 == TopicBox_setCurrentIndex0(Calls(row), qd)
        x2 == QuestionBox_setCurrentIndex0(x1, qd)
    IN  Last(<<x1, x2, [x2 EXCEPT !.row.mark_label = Dash]>>)

\* perform_random_selection from reset_question_rows on
fill_question_rows(w, qd, paper, items) ==
    LET w0 == reset_question_rows(w, qd, expected_count(paper, items))
        w1 == AfterCalls(w0, [i \in DOMAIN w0.question_rows |->
                                 IF i <= Len(items)
                                 THEN FillRow(w0.question_rows[i], qd, items[i])
                                 ELSE BlankRow(w0.question_rows[i], qd)])
    IN  update_total_score(w1, MarkLabels(w1.question_rows))

\* the rows left as they are
show_selection_skip(w, qd, paper, items) == w

\* the rows filled without the test of `selected`
show_selection_unchecked(w, qd, paper, items) ==
    fill_question_rows(w, qd, paper, items)

\* perform_random_selection from `if not selected` on: the warning and the
\* return, or the rows filled with the selection
show_selection(w, qd, paper, items) ==
    IF items = <<>> THEN w ELSE fill_question_rows(w, qd, paper, items)

\* perform_random_selection, the slot of random_btn
RandomSelectionClicked ==
    /\ Waiting
    /\ random_btn
    /\ \E out \in random_select(component, question_data) :
         CASE out.kind = "raise" ->
                /\ pc' = "raised"
                /\ UNCHANGED <<result, window>>
           [] OTHER ->
                /\ SetWindow(show_selection(Window, question_data, component, out.items))
                /\ pc' = "returned"
                /\ result' = IF out.items = <<>> THEN None ELSE Returned(out.items)
                /\ UNCHANGED random_btn
    /\ UNCHANGED <<component, csv, question_data, load_raised, attempt, locals>>

\* reset_all, the slot of reset_btn
ResetClicked ==
    /\ Waiting
    /\ LET changed == component # NoComponent   \* setCurrentIndex(0) changes the text
           loaded == load_question_data(NoComponent, NoFile)
           qd == IF changed THEN loaded.data ELSE question_data
           w0 == IF changed THEN RefreshRows(Window, qd) ELSE Window
           rows == reset_question_rows(w0, qd, 6).question_rows
       IN  /\ SetWindow([w0 EXCEPT
                           !.question_rows =
                               [i \in DOMAIN rows |->
                                   [rows[i] EXCEPT !.question_box.enabled = FALSE,
                                                   !.preview_button = FALSE]],
                           !.total_score_label = 0,
                           !.preview_btn = FALSE,
                           !.save_btn = FALSE,
                           !.copy_btn = FALSE])
           /\ component' = NoComponent
           /\ question_data' = qd
           /\ csv' = IF changed THEN NoFile ELSE csv
           /\ load_raised' = IF changed THEN loaded.raised ELSE load_raised
           /\ random_btn' = IF changed THEN FALSE ELSE random_btn
    /\ Handled

WindowNext ==
    \/ ComponentChosen
    \/ TopicChosen
    \/ QuestionChosen
    \/ AddQuestionClicked
    \/ RemoveLastQuestionClicked
    \/ RandomSelectionClicked
    \/ ResetClicked

WindowSpec == Init /\ [][WindowNext]_vars

------------------------------------------------------------------------------
(* Properties.                                                             *)

Running == pc \notin {"idle", "done", "raised"}

\* The routine has returned a selection.
Success == pc = "done" /\ ~result.is_none

Target(paper) ==
    CASE paper = "9231 Paper 4" -> target_9231_p4
      [] paper = "9231 Paper 3" -> target_9231_p3
      [] paper = "9709 Paper 3" -> target_9709_p3

CountBelow6(items) == Cardinality({i \in DOMAIN items : items[i][2].marks < 6})

\* C1: the marks of a returned selection add up to the routine's target
\* (50 for 9231 Paper 4 and 9231 Paper 3, 75 for 9709 Paper 3).
C1_TotalIsTarget == Success => SumMarks(result.items) = Target(component)

C1_Witness ==
    /\ Success
    /\ component = "9231 Paper 4"
    /\ SumMarks(result.items) = 50
    /\ attempt > 1

\* C2: no topic appears twice in a returned selection.
C2_NoTopicTwice ==
    Success =>
        \A i, j \in DOMAIN result.items :
            i # j => result.items[i][1] # result.items[j][1]

\* C3: a selection returned by random_select_9231_p4 or
\* random_select_9231_p3 has at most one question under 6 marks.
C3_AtMostOneBelow6 ==
    (Success /\ component \in {"9231 Paper 4", "9231 Paper 3"})
        => CountBelow6(result.items) <= 1

\* The catalog has no question for a topic (9709 Paper 3 must_have_once,
\* 9231 Paper 3 core_topics) or for a group (9231 Paper 4 chi, crv, pgf)
\* that the paper's routine requires.
MissingRequired(paper, qd) ==
    CASE paper = "9231 Paper 4" ->
            \E i \in DOMAIN required_keys : Pairs(qd, groups[required_keys[i]]) = <<>>
      [] paper = "9231 Paper 3" ->
            \E i \in DOMAIN core_topics : Get(qd, core_topics[i]) = <<>>
      [] paper = "9709 Paper 3" ->
            \E i \in DOMAIN must_have_once : Get(qd, must_have_once[i]) = <<>>
      [] OTHER -> FALSE

\* C4: on a catalog that lacks a required topic or group the routine returns
\* None, and it returns in the 1000th iteration.
C4_MissingRequiredFails ==
    (pc = "done" /\ MissingRequired(component, question_data))
        => (result.is_none /\ attempt = MaxAttempts)

\* The scenario of C5: random_select_9231_p3 has drawn six core questions
\* of 8 marks each and the extra pool holds a question of 2 marks.
C5_Scenario ==
    /\ pc = "9231_p3_extra"
    /\ Len(selected) = 6
    /\ \A i \in DOMAIN selected : selected[i][2].marks = 8
    /\ \E i \in DOMAIN Pairs(question_data, extra_pool) :
          Pairs(question_data, extra_pool)[i][2].marks = 2

\* C5 as stated: from the scenario the routine returns seven questions
\* that total 50.
C5_ScenarioSucceeds ==
    [][C5_Scenario =>
          /\ pc' = "done"
          /\ ~result'.is_none
          /\ Len(result'.items) = 7
          /\ SumMarks(result'.items) = 50]_vars

\* C5, amended: from the scenario the attempt is abandoned (the core total
\* 48 is over 44): no seventh question is appended, and the routine goes to
\* its next iteration or, in the last one, returns None.
C5_ScenarioAbandoned ==
    [][C5_Scenario =>
          /\ Len(selected') # 7
          /\ \/ pc' = "9231_p3_core" /\ attempt' = attempt + 1
             \/ pc' = "done" /\ result'.is_none /\ attempt = MaxAttempts]_vars

C5_Witness == C5_Scenario /\ attempt = 2

\* C6: a returned selection has 6 questions (9231 Paper 4), 7 questions
\* (9231 Paper 3), or 10 to 11 questions (9709 Paper 3).
C6_SizeBounds ==
    Success =>
        CASE component = "9231 Paper 4" -> Len(result.items) = 6
          [] component = "9231 Paper 3" -> Len(result.items) = 7
          [] component = "9709 Paper 3" ->
                10 <= Len(result.items) /\ Len(result.items) <= 11

C6_Witness ==
    /\ Success
    /\ component = "9709 Paper 3"
    /\ Len(result.items) = 10

\* C7: a selection returned by random_select_9709_p3 has exactly one
\* question from each of the three one_of_sets.
C7_OneFromEachSet ==
    (Success /\ component = "9709 Paper 3") =>
        \A g \in DOMAIN one_of_sets :
            Cardinality({i \in DOMAIN result.items :
                            result.items[i][1] \in Range(one_of_sets[g])}) = 1

\* The rows of a file, as the questions of each topic in row order.
AllWellFormed(rows) == \A i \in DOMAIN rows : IsIntLiteral(rows[i].Marks)

QuestionsOf(rows, topic) ==
    LET mine == SelectSeq(rows, LAMBDA r : r.Topic = topic)
    IN  [i \in DOMAIN mine |-> [index |-> mine[i].Index, marks |-> int(mine[i].Marks)]]

\* qd is the whole catalog of `file` read for `paper`: nothing for an
\* unknown paper or a missing file, otherwise every row of a well-formed
\* file under its topic.
IsCompleteCatalog(qd, paper, file) ==
    IF paper \notin Range(Papers) \/ ~file.exists THEN qd = <<>>
    ELSE /\ AllWellFormed(file.rows)
         /\ Range(Keys(qd)) = {file.rows[i].Topic : i \in DOMAIN file.rows}
         /\ \A t \in Range(Keys(qd)) : Get(qd, t) = QuestionsOf(file.rows, t)

\* C8: a load leaves question_data as the whole catalog of the requested
\* paper or as it was before the load.
C8_LoadIsAtomic ==
    [][\/ question_data' = question_data
       \/ IsCompleteCatalog(question_data', component', csv')]_vars

\* The passes an iteration has left, and with them a bound on the steps
\* the routine has left.
StepsLeft ==
    CASE pc = "9231_p4_required" -> 4 [] pc = "9231_p4_fourth" -> 3
      [] pc = "9231_p4_fifth" -> 2 [] pc = "9231_p4_final" -> 1
      [] pc = "9231_p3_core" -> 2 [] pc = "9231_p3_extra" -> 1
      [] pc = "9709_p3_required" -> 4 [] pc = "9709_p3_at_least" -> 3
      [] pc = "9709_p3_one_of" -> 2 [] pc = "9709_p3_fill" -> 1
      [] OTHER -> 0

Measure == (MaxAttempts - attempt) * 4 + StepsLeft

\* C9: no step of a routine raises (no draw from an empty pool), a routine
\* is never in an iteration beyond the 1000th, and every step of a routine
\* lowers Measure, which stays at least 0: the routine returns.
C9_TerminatesWithoutError ==
    [][/\ pc' # "raised"
       /\ attempt' <= MaxAttempts
       /\ Running => (Measure' < Measure /\ Measure' >= 0)
       /\ Running' => attempt' >= 1]_vars

C9_Witness ==
    /\ pc = "done"
    /\ question_data = <<>>
    /\ component = "9231 Paper 4"
    /\ result.is_none
    /\ attempt = MaxAttempts

\* What the filler pass of random_select_9709_p3 makes of the locals it
\* starts from, and the items it appends to them.
C12_Fill == R9709P3Fill(question_data, selected, used_topics, total)
C12_Added == SubSeq(C12_Fill.selected, Len(selected) + 1, Len(C12_Fill.selected))

\* C12: the filler pass of random_select_9709_p3 only appends; every item it
\* appends is of a filler category that was not yet used, no filler category
\* gives two items, and the running total after each appended item is at
\* most the target 75.
C12_FillerPass ==
    pc = "9709_p3_fill" =>
        /\ SubSeq(C12_Fill.selected, 1, Len(selected)) = selected
        /\ \A i \in DOMAIN C12_Added :
              /\ C12_Added[i][1] \in Range(filler_pool)
              /\ C12_Added[i][1] \notin used_topics
              /\ \A j \in DOMAIN C12_Added :
                    C12_Added[j][1] = C12_Added[i][1] => i = j
              /\ total + SumMarks(SubSeq(C12_Added, 1, i)) <= target_9709_p3

\* The filler pass appends an item of Auxiliary Angle Method after passing
\* over one that does not fit, with Complex Numbers already used.
C12_Witness ==
    /\ pc = "9709_p3_fill"
    /\ C12_Added # <<>>
    /\ "Complex Numbers" \in used_topics
    /\ \E q \in Range(Get(question_data, "Auxiliary Angle Method")) :
          /\ total + q.marks > target_9709_p3
          /\ C12_Added[1][1] = "Auxiliary Angle Method"
          /\ C12_Added[1][2] # q

\* The (topic, question) pairs of the catalog whose topic the attempt has not
\* used and whose marks bring the running total to the target 50.
C13_Pairs ==
    UNION { { <<t, q>> : q \in { x \in Range(Get(question_data, t)) :
                                   total + x.marks = target_9231_p4 } }
            : t \in Range(Keys(question_data)) \ used_topics }

\* The attempt is given up: the routine starts its next attempt from fresh
\* locals or, after the last attempt, returns None.
C13_Abandoned ==
    \/ pc' = "9231_p4_required" /\ attempt' = attempt + 1 /\ selected' = <<>>
    \/ pc' = "done" /\ result'.is_none /\ selected' = selected

\* C13: in the last pass of an attempt of random_select_9231_p4 the item
\* appended to the five picked so far is one of the (topic, question) pairs,
\* over all topics of the catalog the attempt has not used, whose marks bring
\* the total to exactly 50; with five items picked and such a pair the routine
\* returns the six; without such a pair the attempt is given up and nothing is
\* appended.
C13_SixthItem ==
    [][pc = "9231_p4_final" =>
          /\ C13_Pairs = {} => C13_Abandoned
          /\ C13_Pairs # {} /\ Len(selected) = 5 => pc' = "done" /\ ~result'.is_none
          /\ (pc' = "done" /\ ~result'.is_none) =>
                \E p \in C13_Pairs : result'.items = Append(selected, p)
          /\ ~(pc' = "done" /\ ~result'.is_none) => C13_Abandoned]_vars

\* A returned selection of 9231 Paper 4 whose sixth item is of a topic
\* outside the group the fourth and fifth picks come from.
C13_Witness ==
    /\ Success
    /\ component = "9231 Paper 4"
    /\ result.items[6][1] = "Chi-square Test (goodness of fit)"
    /\ result.items[6][1] \notin Range(groups.twci)

C14_FirstPasses == {"9231_p4_required", "9231_p3_core", "9709_p3_required"}

\* C14: every attempt of each routine starts with an empty selection, an
\* empty set of used topics, a zero total and a zero below-6 counter, and what
\* its first pass leaves is an outcome of that pass run on the catalog from
\* those fresh locals, whatever the attempts before it did.
C14_AttemptsIndependent ==
    [][/\ pc' \in C14_FirstPasses =>
             /\ attempt' >= 1
             /\ <<selected', used_topics', total', below_6'>> = <<<<>>, {}, 0, 0>>
       /\ pc = "9231_p3_core" =>
             \E st \in R9231P3CoreLoop(question_data, NewLocals, 1) :
                <<selected', used_topics', total', below_6'>>
                  = <<st.selected, st.used_topics, st.total, st.below_6>>
       /\ pc = "9231_p4_required" =>
             \E st \in R9231P4RequiredLoop(question_data, NewLocals, 1) :
                <<selected', used_topics', below_6'>>
                  = <<st.selected, st.used_topics, st.below_6>>
       /\ pc = "9709_p3_required" =>
             \E st \in R9709P3RequiredLoop(question_data, NewLocals, 1) :
                <<selected', used_topics', total'>>
                  = <<st.selected, st.used_topics, st.total>>]_vars

\* A routine returns a selection from its second attempt, the first one
\* having been abandoned.
C14_Witness == Success /\ attempt = 2 /\ Len(result.items) >= 6

\* Every topic random_select_9709_p3 names in must_have_once,
\* must_have_at_least and one_of_sets has a question in the catalog.
C16_NamedTopics ==
    Range(must_have_once) \cup Range(must_have_at_least)
        \cup UNION {Range(one_of_sets[i]) : i \in DOMAIN one_of_sets}

C16_AllNamedPresent ==
    /\ component = "9709 Paper 3"
    /\ \A t \in C16_NamedTopics : Get(question_data, t) # <<>>

\* C16: with a question in the catalog for every topic the routine names,
\* no attempt of random_select_9709_p3 raises, every attempt enters the filler
\* pass with 11 items selected and the filler pass leaves them as they are, so
\* a returned selection has exactly 11 items and none of Auxiliary Angle
\* Method or Product Rule and Quotient Rule.
C16_ElevenBeforeFiller ==
    C16_AllNamedPresent =>
        /\ pc # "raised"
        /\ pc = "9709_p3_fill" =>
              /\ Len(selected) = 11
              /\ R9709P3Fill(question_data, selected, used_topics, total).selected = selected
        /\ Success =>
              /\ Len(result.items) = 11
              /\ \A i \in DOMAIN result.items :
                    result.items[i][1] \notin {"Auxiliary Angle Method",
                                               "Product Rule and Quotient Rule"}

\* A selection returned from such a catalog, in which both filler topics
\* that are never picked have questions, one of them small enough to fit
\* under the target after another choice of the 11 items.
C16_Witness ==
    /\ C16_AllNamedPresent
    /\ Success
    /\ \E q \in Range(Get(question_data, "Vectors")) : q.marks = 1
    /\ Get(question_data, "Auxiliary Angle Method") # <<>>
    /\ Get(question_data, "Product Rule and Quotient Rule") # <<>>

\* C17: a selection returned by random_select_9231_p3 is one question of each
\* of the six core topics, of at most 44 marks together, and a seventh of the
\* extra pool of at least 6 marks; the questions below 6 marks are all among
\* the six core ones, and they are what the below-6 counter has counted.
C17_CoreDecidesPenalty ==
    Success /\ component = "9231 Paper 3" =>
        /\ Len(result.items) = 7
        /\ \A i \in 1..6 : result.items[i][1] = core_topics[i]
        /\ SumMarks(SubSeq(result.items, 1, 6)) <= target_9231_p3 - 6
        /\ result.items[7][1] \in Range(extra_pool)
        /\ result.items[7][2].marks >= 6
        /\ Below6(result.items[7][2]) = 0
        /\ CountBelow6(result.items) = CountBelow6(SubSeq(result.items, 1, 6))
        /\ below_6 = CountBelow6(SubSeq(result.items, 1, 6))

\* A returned selection of 9231 Paper 3 with one core question below 6 marks.
C17_Witness ==
    /\ Success
    /\ component = "9231 Paper 3"
    /\ CountBelow6(SubSeq(result.items, 1, 6)) = 1

------------------------------------------------------------------------------
C18_SomeQuestionSelected ==
    \E i \in DOMAIN question_rows :
        question_rows[i].question_box.text # SelectQuestion

\* C18 (as the specification states it): whenever the window waits for the
\* user, the paper's Preview, Save, Copy Question Indices and Sort by Marks
\* buttons are enabled if some question row has a question selected, and
\* disabled if none has.
C18_FooterIffSelected ==
    Waiting =>
        /\ preview_btn = C18_SomeQuestionSelected
        /\ save_btn = C18_SomeQuestionSelected
        /\ copy_btn = C18_SomeQuestionSelected
        /\ sort_button = C18_SomeQuestionSelected

------------------------------------------------------------------------------
\* the step is a call of perform_random_selection, and so of a selection
\* routine: it ended in an exception, or it returned
C11_Called == pc' \in {"raised", "returned"}

\* the routine raised, or it returned None or an empty list
C11_Failed == pc' = "raised" \/ (pc' = "returned" /\ result'.is_none)

\* C11: a call of a selection routine leaves question_data as it was, whether
\* it succeeds or fails, and when it fails perform_random_selection leaves the
\* question rows as they were: as many rows, each with the topic and the
\* question it showed.
C11_CatalogAndRowsKept ==
    [][/\ C11_Called => question_data' = question_data
       /\ C11_Failed => question_rows' = question_rows]_vars

\* a failed selection while row 7 shows a chosen question
C11_Witness ==
    /\ pc = "returned"
    /\ result.is_none
    /\ Len(question_rows) = 7
    /\ question_rows[7].question_box.text \notin {SelectQuestion, NoText}

------------------------------------------------------------------------------
\* perform_random_selection has just shown the selection in `result`
C15_Succeeded == pc = "returned" /\ ~result.is_none

\* C15: after a successful random selection there are as many question rows
\* as selected items, row i shows the topic and the question index of the
\* i-th selected item, and the total score shown is the sum of the selected
\* marks, which is the paper's target.
C15_RowsShowSelection ==
    C15_Succeeded =>
        /\ Len(question_rows) = Len(result.items)
        /\ \A i \in DOMAIN result.items :
              /\ question_rows[i].topic_box.text = result.items[i][1]
              /\ question_rows[i].question_box.text = result.items[i][2].index
        /\ total_score_label = SumMarks(result.items)
        /\ total_score_label = Target(component)

\* a selection of 11 questions shown in place of rows that were fewer
C15_Witness ==
    /\ C15_Succeeded
    /\ component = "9709 Paper 3"
    /\ Len(result.items) = 11
    /\ Len(question_rows) = 11

====
